---- MODULE Spec2Model ----
(***************************************************************************)
(* A model of image_resizer (src/src/main.rs): the size-targeted           *)
(* compression search of smart_compress and the batch driver               *)
(* process_images around it.                                               *)
(*                                                                         *)
(* Sizes are byte counts.  scale_factor is an f32 in the source; here it   *)
(* is a fixed-point number in units of 1e-7 (ScaleOne = 1.0), multiplied   *)
(* with round-to-nearest.  The schedule values next to the 0.3 bound are   *)
(* 0.3045 and 0.2589, so f32 rounding (about 1e-7) cannot change which     *)
(* scales are tried.                                                       *)
(***************************************************************************)
EXTENDS Integers, Sequences, FiniteSets, TLC

VARIABLES
    config,     \* the Config built by main
    images,     \* the Vec<PathBuf> returned by collect_images
    task,       \* per image: where process_single_image_with_result stands
    call,       \* the running smart_compress call: its arguments and locals
    files,      \* output files on disk: path -> length and who wrote it
    results,    \* the Arc<Mutex<Vec<ProcessResult>>> collector
    main_pc     \* process_images: "running", "summary" or "empty"

vars == <<config, images, task, call, files, results, main_pc>>

----------------------------------------------------------------------------
(* Bounds of the model *)

\* at most this many files in the input tree
MaxImages == 2
\* target sizes 1..MaxTargetKB KB are tried besides the 50 KB scenario
MaxTargetKB == 1

----------------------------------------------------------------------------
(* Program constants *)

QualityLow == 10
QualityHigh == 95
ScaledQualityLow == 60
ScaledQualityHigh == 95
DefaultQuality == 90
BytesPerKB == 1024
ScaleOne == 10000000
ScaleStart == 9500000
ScaleFloor == 3000000
ScaleStepPct == 85

None == [some |-> FALSE]

KB(n) == n * BytesPerKB
ScenarioImageBytes == KB(80)

\* the --size values tried: 1..MaxTargetKB and the 50 KB of the scenario
TargetKBs == (1..MaxTargetKB) \cup {50}

\* encoded lengths the encoders can produce: each budget exactly, one byte
\* over each budget, and the 80 KB of the scenario
Sizes == UNION {{KB(k), KB(k) + 1} : k \in TargetKBs} \cup {ScenarioImageBytes}

----------------------------------------------------------------------------
(* Paths *)

\* a path: the directory's components, the file stem and the extension; the
\* stem is a sequence of name parts so that a suffix can be appended to it
Path(parent, stem, ext) == [parent |-> parent, stem |-> stem, ext |-> ext]

\* PathBuf::new()
EmptyPath == Path(<<>>, <<>>, "")

ToLower(ext) ==
    CASE ext = "PNG" -> "png"
      [] ext = "JPG" -> "jpg"
      [] OTHER -> ext

is_image_file(p) ==
    ToLower(p.ext) \in {"jpg", "jpeg", "png", "gif", "bmp", "webp", "tiff", "tif"}

\* Ok(format) or Err("Unsupported image format"); the match is case-sensitive
get_image_format(p) ==
    CASE p.ext \in {"jpg", "jpeg"} -> [ok |-> TRUE, format |-> "Jpeg"]
      [] p.ext = "png" -> [ok |-> TRUE, format |-> "Png"]
      [] p.ext = "gif" -> [ok |-> TRUE, format |-> "Gif"]
      [] p.ext = "bmp" -> [ok |-> TRUE, format |-> "Bmp"]
      [] p.ext = "webp" -> [ok |-> TRUE, format |-> "WebP"]
      [] p.ext \in {"tiff", "tif"} -> [ok |-> TRUE, format |-> "Tiff"]
      [] OTHER -> [ok |-> FALSE, format |-> "Unsupported image format"]

\* the directory part of get_output_path
OutputDir(input_path, cfg) ==
    IF cfg.output_dir.some
    THEN cfg.output_dir.dir
    ELSE Append(input_path.parent, "resized")

\* <output dir>/<stem>_resized.<extension>; the file name is kept as the pair
\* (stem with suffix, extension), which format! maps one-to-one to a string
\* because an extension holds no dot
get_output_path(input_path, cfg) ==
    Path(OutputDir(input_path, cfg), Append(input_path.stem, "_resized"), input_path.ext)

----------------------------------------------------------------------------
(* The encoder and the resampler (the image crate), as the search sees them *)

EncodeError == -1

\* A decoded image, described by the lengths of its encodings.
\*   kind "monotone": quality q < t encodes to lo bytes, q >= t to hi >= lo
\*   kind "free":     quality 10 encodes to lo bytes, any other quality to
\*                    any length of Sizes, chosen anew at each encode
\*   shrink "area":   a resampled copy encodes in proportion to its pixels
\*   shrink "none":   resampling does not change the encoded length
MonotoneImages ==
    {[kind |-> "monotone", t |-> t, lo |-> lo, hi |-> hi, shrink |-> sh] :
        t \in (QualityLow + 1)..QualityHigh, lo \in Sizes, hi \in Sizes,
        sh \in {"none", "area"}}

FlatImages ==
    {[kind |-> "monotone", t |-> QualityHigh + 1, lo |-> s, hi |-> s, shrink |-> sh] :
        s \in Sizes, sh \in {"none", "area"}}

FreeImages ==
    {[kind |-> "free", t |-> QualityLow, lo |-> s, hi |-> s, shrink |-> sh] :
        s \in Sizes, sh \in {"none", "area"}}

\* what image::open can return for a file, by its extension: a JPEG's
\* encodings depend on the quality, the other formats' do not.  The optional
\* resize_image of line 303 yields another decoded image, so the image
\* entering the search is any of these as well.
DecodedImages(p) ==
    IF ToLower(p.ext) = "jpg"
    THEN {i \in MonotoneImages : i.lo < i.hi} \cup FlatImages \cup FreeImages
    ELSE {i \in FlatImages : i.lo \in {KB(1), ScenarioImageBytes}}

\* percentage of the pixels left by scale_image at this scale
AreaPct(scale) == ((scale \div 100000) * (scale \div 100000)) \div 100

Resampled(img, size, scale) ==
    IF img.shrink = "area" THEN (size * AreaPct(scale)) \div 100 ELSE size

\* JPEG and WebP encode at the given quality; every other format ignores it
QualitySensitive(format) == format \in {"Jpeg", "WebP"}

BaseSizes(img, quality) ==
    IF img.kind = "free"
    THEN IF quality = QualityLow THEN {img.lo} ELSE Sizes
    ELSE {IF quality < img.t THEN img.lo ELSE img.hi}

\* the possible lengths of save_to_buffer(scale_image(img, scale), format, quality)
EncodedSizes(img, format, scale, quality) ==
    LET q == IF QualitySensitive(format) THEN quality ELSE QualityLow
    IN  {Resampled(img, s, scale) : s \in BaseSizes(img, q)}

\* save_to_buffer returns Ok(buffer) or the encoder's error
save_to_buffer(img, format, scale, quality) ==
    EncodedSizes(img, format, scale, quality) \cup {EncodeError}

----------------------------------------------------------------------------
(* smart_compress, one loop iteration per step *)

Some(data, quality, scale) ==
    [some |-> TRUE, data |-> data, quality |-> quality, scale |-> scale]

NoCall == [pc |-> "idle"]

\* the quality range taken without its upper end
EnterCompressExclusiveHigh(img, target_bytes, format, auto_scale) ==
    [pc |-> "quality", img |-> img, target_bytes |-> target_bytes,
     format |-> format, auto_scale |-> auto_scale,
     low_quality |-> QualityLow, high_quality |-> QualityHigh - 1,
     best_result |-> None, scale_factor |-> ScaleOne,
     probes |-> <<>>, ret |-> "running"]

\* entry of smart_compress: lines 349-352
EnterCompress(img, target_bytes, format, auto_scale) ==
    [pc |-> "quality", img |-> img, target_bytes |-> target_bytes,
     format |-> format, auto_scale |-> auto_scale,
     low_quality |-> QualityLow, high_quality |-> QualityHigh,
     best_result |-> None, scale_factor |-> ScaleOne,
     probes |-> <<>>, ret |-> "running"]

Midpoint(c) == (c.low_quality + c.high_quality) \div 2

\* the comparison made on the kilobytes the trace prints
FitsQualityInKB(size, target_bytes) ==
    size \div BytesPerKB <= target_bytes \div BytesPerKB

\* line 364

FitsQuality(size, target_bytes) == size <= target_bytes

FitsScaledInKB(size, target_bytes) ==
    size \div BytesPerKB <= target_bytes \div BytesPerKB

\* line 397

FitsScaled(size, target_bytes) == size <= target_bytes

\* the trace line of a probe (printed when verbose; kept here always)
Probe(c, fits) ==
    [scale |-> c.scale_factor, quality |-> Midpoint(c), fits |-> fits]

\* the first fit is kept and later fits do not replace it
QualityIterationKeepsFirst(c, out) ==
    IF out = EncodeError
    THEN [c EXCEPT !.pc = "done", !.ret = "encode error"]
    ELSE IF FitsQuality(out, c.target_bytes)
         THEN [c EXCEPT !.best_result =
                            IF @.some THEN @ ELSE Some(out, Midpoint(c), ScaleOne),
                        !.low_quality = Midpoint(c) + 1,
                        !.probes = Append(@, Probe(c, TRUE))]
         ELSE [c EXCEPT !.high_quality = Midpoint(c) - 1,
                        !.probes = Append(@, Probe(c, FALSE))]

\* one iteration of the quality-only loop (lines 355-374) with the encoder
\* returning `out`; the loop condition is the caller's guard
QualityIteration(c, out) ==
    IF out = EncodeError
    THEN [c EXCEPT !.pc = "done", !.ret = "encode error"]
    ELSE IF FitsQuality(out, c.target_bytes)
         THEN [c EXCEPT !.best_result = Some(out, Midpoint(c), ScaleOne),
                        !.low_quality = Midpoint(c) + 1,
                        !.probes = Append(@, Probe(c, TRUE))]
         ELSE [c EXCEPT !.high_quality = Midpoint(c) - 1,
                        !.probes = Append(@, Probe(c, FALSE))]

\* the fallback is entered whatever auto_scale says
EntersFallbackAlways(c) == ~c.best_result.some

\* line 377
EntersFallback(c) == ~c.best_result.some /\ c.auto_scale

\* the quality loop has ended: lines 376-378
AfterQualityLoop(c) ==
    IF EntersFallback(c)
    THEN [c EXCEPT !.scale_factor = ScaleStart, !.pc = "scale"]
    ELSE [c EXCEPT !.pc = "return"]

\* line 380
ScaleInRange(scale) == scale > ScaleFloor

\* head of the scale loop: lines 380-385
ScaleLoopHead(c) ==
    IF ScaleInRange(c.scale_factor)
    THEN [c EXCEPT !.low_quality = ScaledQualityLow,
                   !.high_quality = ScaledQualityHigh,
                   !.pc = "scaled"]
    ELSE [c EXCEPT !.pc = "return"]

\* the inner loop goes on after a fit, as the quality-only loop does
ScaledIterationNoBreak(c, out) ==
    IF out = EncodeError
    THEN [c EXCEPT !.pc = "done", !.ret = "encode error"]
    ELSE IF FitsScaled(out, c.target_bytes)
         THEN [c EXCEPT !.best_result = Some(out, Midpoint(c), c.scale_factor),
                        !.low_quality = Midpoint(c) + 1,
                        !.probes = Append(@, Probe(c, TRUE))]
         ELSE [c EXCEPT !.high_quality = Midpoint(c) - 1,
                        !.probes = Append(@, Probe(c, FALSE))]

\* the result records scale 1.0, as the quality-only loop's does
ScaledIterationScaleOne(c, out) ==
    IF out = EncodeError
    THEN [c EXCEPT !.pc = "done", !.ret = "encode error"]
    ELSE IF FitsScaled(out, c.target_bytes)
         THEN [c EXCEPT !.best_result = Some(out, Midpoint(c), ScaleOne),
                        !.probes = Append(@, Probe(c, TRUE)),
                        !.pc = "endscale"]
         ELSE [c EXCEPT !.high_quality = Midpoint(c) - 1,
                        !.probes = Append(@, Probe(c, FALSE))]

\* one iteration of the inner loop (lines 387-407); a fit breaks out of it
ScaledIteration(c, out) ==
    IF out = EncodeError
    THEN [c EXCEPT !.pc = "done", !.ret = "encode error"]
    ELSE IF FitsScaled(out, c.target_bytes)
         THEN [c EXCEPT !.best_result = Some(out, Midpoint(c), c.scale_factor),
                        !.probes = Append(@, Probe(c, TRUE)),
                        !.pc = "endscale"]
         ELSE [c EXCEPT !.high_quality = Midpoint(c) - 1,
                        !.probes = Append(@, Probe(c, FALSE))]

\* the scale is lowered by 0.15 instead of multiplied by 0.85
NextScaleLinear(scale) == scale - (100 - ScaleStepPct) * (ScaleOne \div 100)

\* scale_factor *= 0.85 (line 413)
NextScale(scale) == (scale * ScaleStepPct + 50) \div 100

\* after the inner loop: lines 409-413
EndOfScale(c) ==
    IF c.best_result.some
    THEN [c EXCEPT !.pc = "return"]
    ELSE [c EXCEPT !.scale_factor = NextScale(@), !.pc = "scale"]

\* line 417
ReturnValue(c) ==
    [c EXCEPT !.pc = "done",
              !.ret = IF c.best_result.some THEN "ok"
                      ELSE "Could not achieve target file size"]

LoopRuns(c) == c.low_quality <= c.high_quality

\* the next step of a call whose encoder answers `out` (unused by the steps
\* that do not encode)
StepCall(c, out) ==
    CASE c.pc = "quality" /\ LoopRuns(c) -> QualityIteration(c, out)
      [] c.pc = "quality" /\ ~LoopRuns(c) -> AfterQualityLoop(c)
      [] c.pc = "scale" -> ScaleLoopHead(c)
      [] c.pc = "scaled" /\ LoopRuns(c) -> ScaledIteration(c, out)
      [] c.pc \in {"scaled", "endscale"} -> EndOfScale(c)
      [] c.pc = "return" -> ReturnValue(c)
      [] OTHER -> c

Encodes(c) == c.pc \in {"quality", "scaled"} /\ LoopRuns(c)

\* smart_compress run to its return, for an image whose encodings are
\* determined (kind "monotone") and an encoder that does not fail
RECURSIVE RunCall(_)
RunCall(c) ==
    IF c.pc = "done" THEN c
    ELSE RunCall(StepCall(c,
            IF Encodes(c)
            THEN CHOOSE s \in EncodedSizes(c.img, c.format, c.scale_factor, Midpoint(c)) : TRUE
            ELSE 0))

----------------------------------------------------------------------------
(* The input tree and the configuration *)

\* the files WalkDir can meet, in the order it yields them
Walk ==
    << Path(<<"in", "a">>, <<"x">>, "png"),
       Path(<<"in", "b">>, <<"x">>, "png"),
       Path(<<"in", "a">>, <<"x">>, "bmp"),
       Path(<<"in", "a">>, <<"y">>, "PNG"),
       Path(<<"in", "a">>, <<"notes">>, "txt") >>

Photo == Path(<<"in">>, <<"photo">>, "jpg")

RECURSIVE Filter(_, _)
Filter(seq, keep) ==
    IF seq = <<>> THEN <<>>
    ELSE IF keep[1] THEN <<seq[1]>> \o Filter(Tail(seq), Tail(keep))
         ELSE Filter(Tail(seq), Tail(keep))

\* every tree of at most MaxImages files of Walk, as the sequence WalkDir yields
Trees ==
    {Filter(Walk, keep) : keep \in
        {k \in [1..Len(Walk) -> BOOLEAN] :
            Cardinality({n \in 1..Len(Walk) : k[n]}) <= MaxImages}}

collect_images(tree) == SelectSeq(tree, is_image_file)

OutputDirs == {None, [some |-> TRUE, dir |-> <<"out">>]}

TargetSizes == {None} \cup {[some |-> TRUE, kb |-> k] : k \in TargetKBs}

Configs(parallels, output_dirs) ==
    {[target_size_kb |-> t, output_dir |-> o, parallel |-> p, auto_scale |-> a] :
        t \in TargetSizes, o \in output_dirs, p \in parallels, a \in BOOLEAN}

\* the length fs::metadata reports for an input file
InputBytes == {2 * ScenarioImageBytes}

----------------------------------------------------------------------------
(* process_single_image_with_result, per image *)

Pending ==
    [pc |-> "pending", original_size |-> 0, output_path |-> EmptyPath,
     data |-> 0, final_size |-> 0, success |-> FALSE, message |-> ""]

\* an Err turned into a ProcessResult: lines 223-230 and 255-262
Failed(original_size, message) ==
    [pc |-> "ready", original_size |-> original_size, output_path |-> EmptyPath,
     data |-> 0, final_size |-> 0, success |-> FALSE, message |-> message]

\* a buffer about to be written to the output path
ToWrite(i, original_size, data) ==
    [pc |-> "towrite", original_size |-> original_size,
     output_path |-> get_output_path(images[i], config),
     data |-> data, final_size |-> 0, success |-> FALSE, message |-> ""]

\* the path whose extension picks the encoder: the input's with a target size
\* (line 317), the output's without (line 465)
FormatOf(i) ==
    get_image_format(IF config.target_size_kb.some
                     THEN images[i]
                     ELSE get_output_path(images[i], config))

\* par_iter starts the images in any order; the for loop one after the other
CanStart(i) ==
    config.parallel \/ \A j \in 1..(i - 1) : task[j].pc = "pushed"

\* what the call returned, handed back through line 320
Returned(i, original_size, c) ==
    IF c.ret = "ok"
    THEN ToWrite(i, original_size, c.best_result.data)
    ELSE Failed(original_size, c.ret)

\* the steps of process_single_image_with_result before the search, for the
\* outcomes that need no search: lines 220-232, 299, 307, 310-313, 317
BeginsWithout(i, original_size, img) ==
    \/ /\ task' = [task EXCEPT ![i] = Failed(0, "Failed to read file metadata")]
    \/ /\ task' = [task EXCEPT ![i] = Failed(original_size, "decode error")]
    \/ /\ task' = [task EXCEPT ![i] = Failed(original_size, "io error")]
    \/ /\ ~FormatOf(i).ok
       /\ task' = [task EXCEPT ![i] = Failed(original_size, FormatOf(i).format)]
    \/ /\ FormatOf(i).ok
       /\ ~config.target_size_kb.some
       /\ \E out \in save_to_buffer(img, FormatOf(i).format, ScaleOne, DefaultQuality) :
            task' = [task EXCEPT ![i] =
                        IF out = EncodeError
                        THEN Failed(original_size, "encode error")
                        ELSE ToWrite(i, original_size, out)]

CallFor(i, img) ==
    EnterCompress(img, config.target_size_kb.kb * BytesPerKB,
                  FormatOf(i).format, config.auto_scale)

\* an image is taken up and brought to the entry of smart_compress
Begin(i) ==
    /\ task[i].pc = "pending"
    /\ CanStart(i)
    /\ call.pc \in {"idle", "done"}
    /\ \E original_size \in InputBytes, img \in DecodedImages(images[i]) :
         \/ /\ BeginsWithout(i, original_size, img)
            /\ UNCHANGED call
         \/ /\ FormatOf(i).ok
            /\ config.target_size_kb.some
            /\ call' = CallFor(i, img)
            /\ task' = [task EXCEPT ![i] = [Pending EXCEPT !.pc = "compress",
                                               !.original_size = original_size]]
    /\ UNCHANGED <<config, images, files, results, main_pc>>

Searching(i) == task[i].pc = "compress"

QualityProbe(i) ==
    /\ Searching(i)
    /\ call.pc = "quality" /\ LoopRuns(call)
    /\ \E out \in save_to_buffer(call.img, call.format, call.scale_factor, Midpoint(call)) :
         call' = QualityIteration(call, out)
    /\ UNCHANGED <<config, images, task, files, results, main_pc>>

QualityDone(i) ==
    /\ Searching(i)
    /\ call.pc = "quality" /\ ~LoopRuns(call)
    /\ call' = AfterQualityLoop(call)
    /\ UNCHANGED <<config, images, task, files, results, main_pc>>

ScaleImage(i) ==
    /\ Searching(i)
    /\ call.pc = "scale"
    /\ call' = ScaleLoopHead(call)
    /\ UNCHANGED <<config, images, task, files, results, main_pc>>

ScaledProbe(i) ==
    /\ Searching(i)
    /\ call.pc = "scaled" /\ LoopRuns(call)
    /\ \E out \in save_to_buffer(call.img, call.format, call.scale_factor, Midpoint(call)) :
         call' = ScaledIteration(call, out)
    /\ UNCHANGED <<config, images, task, files, results, main_pc>>

ScaleDone(i) ==
    /\ Searching(i)
    /\ \/ call.pc = "scaled" /\ ~LoopRuns(call)
       \/ call.pc = "endscale"
    /\ call' = EndOfScale(call)
    /\ UNCHANGED <<config, images, task, files, results, main_pc>>

Return(i) ==
    /\ Searching(i)
    /\ call.pc = "return"
    /\ call' = ReturnValue(call)
    /\ UNCHANGED <<config, images, task, files, results, main_pc>>

\* the caller takes the Result: line 320
Resume(i) ==
    /\ Searching(i)
    /\ call.pc = "done"
    /\ task' = [task EXCEPT ![i] = Returned(i, task[i].original_size, call)]
    /\ UNCHANGED <<config, images, call, files, results, main_pc>>

\* the same, with the whole search one step: smart_compress works on values
\* it owns, so no other worker can observe its steps
Process(i) ==
    /\ task[i].pc = "pending"
    /\ CanStart(i)
    /\ \E original_size \in InputBytes, img \in DecodedImages(images[i]) :
         \/ BeginsWithout(i, original_size, img)
         \/ /\ FormatOf(i).ok
            /\ config.target_size_kb.some
            /\ \/ task' = [task EXCEPT ![i] =
                            Returned(i, original_size, RunCall(CallFor(i, img)))]
               \/ task' = [task EXCEPT ![i] = Failed(original_size, "encode error")]
    /\ UNCHANGED <<config, images, call, files, results, main_pc>>

\* fs::write(&output_path, ..): lines 323 and 467
Write(i) ==
    /\ task[i].pc = "towrite"
    /\ \/ /\ files' =
               [p \in DOMAIN files \cup {task[i].output_path} |->
                   IF p = task[i].output_path
                   THEN [len |-> task[i].data,
                         writers |-> {i} \cup
                            (IF p \in DOMAIN files THEN files[p].writers ELSE {})]
                   ELSE files[p]]
          /\ task' = [task EXCEPT ![i].pc = "written"]
       \/ /\ task' = [task EXCEPT ![i] = Failed(task[i].original_size, "io error")]
          /\ UNCHANGED files
    /\ UNCHANGED <<config, images, call, results, main_pc>>

\* fs::metadata(&output_path): lines 236-253
Stat(i) ==
    /\ task[i].pc = "written"
    /\ \/ task' = [task EXCEPT ![i].pc = "ready", ![i].success = TRUE,
                               ![i].final_size = files[task[i].output_path].len]
       \/ task' = [task EXCEPT ![i].pc = "ready",
                               ![i].message = "Failed to read output file"]
    /\ UNCHANGED <<config, images, call, files, results, main_pc>>

ProcessResult(i) ==
    [input_path |-> images[i], output_path |-> task[i].output_path,
     original_size |-> task[i].original_size, final_size |-> task[i].final_size,
     success |-> task[i].success, message |-> task[i].message]

\* a failed image's result is not collected
PushDropsFailures(i) ==
    /\ task[i].pc = "ready"
    /\ results' = IF task[i].success THEN Append(results, ProcessResult(i)) ELSE results
    /\ task' = [task EXCEPT ![i].pc = "pushed"]
    /\ UNCHANGED <<config, images, call, files, main_pc>>

\* results.lock().unwrap().push(result): lines 156 and 167
Push(i) ==
    /\ task[i].pc = "ready"
    /\ results' = Append(results, ProcessResult(i))
    /\ task' = [task EXCEPT ![i].pc = "pushed"]
    /\ UNCHANGED <<config, images, call, files, main_pc>>

\* lines 128-131
NoImages ==
    /\ main_pc = "running"
    /\ images = <<>>
    /\ main_pc' = "empty"
    /\ UNCHANGED <<config, images, task, call, files, results>>

\* every image has been processed: line 173
Summary ==
    /\ main_pc = "running"
    /\ images # <<>>
    /\ \A i \in DOMAIN images : task[i].pc = "pushed"
    /\ main_pc' = "summary"
    /\ UNCHANGED <<config, images, task, call, files, results>>

InitWith(trees, configs) ==
    /\ config \in configs
    /\ images \in {collect_images(t) : t \in trees}
    /\ task = [i \in DOMAIN images |-> Pending]
    /\ call = NoCall
    /\ files = <<>>
    /\ results = <<>>
    /\ main_pc = "running"

\* one photograph, the search step by step
Init == InitWith({<<>>, <<Photo>>}, Configs({FALSE}, {None}))

Next ==
    \/ \E i \in DOMAIN images : Begin(i)
    \/ \E i \in DOMAIN images : QualityProbe(i)
    \/ \E i \in DOMAIN images : QualityDone(i)
    \/ \E i \in DOMAIN images : ScaleImage(i)
    \/ \E i \in DOMAIN images : ScaledProbe(i)
    \/ \E i \in DOMAIN images : ScaleDone(i)
    \/ \E i \in DOMAIN images : Return(i)
    \/ \E i \in DOMAIN images : Resume(i)
    \/ \E i \in DOMAIN images : Write(i)
    \/ \E i \in DOMAIN images : Stat(i)
    \/ \E i \in DOMAIN images : Push(i)
    \/ NoImages
    \/ Summary

Spec == Init /\ [][Next]_vars

\* a tree of files, each image's search one step
InitBatch == InitWith(Trees, Configs(BOOLEAN, OutputDirs))

NextBatch ==
    \/ \E i \in DOMAIN images : Process(i)
    \/ \E i \in DOMAIN images : Write(i)
    \/ \E i \in DOMAIN images : Stat(i)
    \/ \E i \in DOMAIN images : Push(i)
    \/ NoImages
    \/ Summary

SpecBatch == InitBatch /\ [][NextBatch]_vars

----------------------------------------------------------------------------
(* Properties of the search (under Spec) *)

Unreachable == "Could not achieve target file size"

ReturnedOk == call.pc = "done" /\ call.ret = "ok"

\* the call returned something the encoder did not cause
ReturnedFromSearch == call.pc = "done" /\ call.ret # "encode error"

\* positions of the trace: probes of the quality-only search, of the fallback
QualityOnly == {n \in DOMAIN call.probes : call.probes[n].scale = ScaleOne}
Fallback == {n \in DOMAIN call.probes : call.probes[n].scale # ScaleOne}

\* 0.95 * 0.85^k, in the units of ScaleOne
RECURSIVE Geometric(_)
Geometric(k) == IF k = 0 THEN 9500000 ELSE (Geometric(k - 1) * 85 + 50) \div 100

\* the first terms of that sequence, and those above 0.30: k = 0..7
Schedule == [k \in 0..12 |-> Geometric(k)]
ScheduleIndex == {k \in DOMAIN Schedule : Schedule[k] > 3000000}
ScheduleScales == {Schedule[k] : k \in ScheduleIndex}

\* C1: whenever smart_compress returns Ok, from the quality-only search or
\* from the fallback, the returned buffer is no longer than target_bytes.
C1_ResultWithinBudget ==
    ReturnedOk =>
        /\ call.best_result.some
        /\ call.best_result.data <= call.target_bytes

\* a fallback result of exactly target_bytes, from an encoder that is not monotone
C1_Witness ==
    /\ ReturnedOk
    /\ call.img.kind = "free"
    /\ call.best_result.scale < ScaleOne
    /\ call.best_result.data = call.target_bytes

\* C2: in the quality-only search, once a probe at quality Q has fitted,
\* best_result holds a scale-1.0 result of quality >= Q, and the call returns
\* Ok when it returns (an encoder that fails is no size function).
C2_AtLeastEveryFittingProbe ==
    call.pc # "idle" =>
        \A n \in QualityOnly :
            call.probes[n].fits =>
                /\ call.best_result.some
                /\ call.best_result.scale = ScaleOne
                /\ call.best_result.quality >= call.probes[n].quality
                /\ \E m \in QualityOnly :
                     /\ call.probes[m].fits
                     /\ call.probes[m].quality = call.best_result.quality
                /\ ReturnedFromSearch => call.ret = "ok"

\* three probes fitted on an encoder that is not monotone, and the call returned
C2_Witness ==
    /\ ReturnedOk
    /\ call.img.kind = "free"
    /\ Cardinality({n \in QualityOnly : call.probes[n].fits}) >= 3
    /\ \E n \in QualityOnly : ~call.probes[n].fits

\* C3: with auto_scale false the call never reaches the scale loop, never
\* probes at a scale other than 1.0, and returns the 'could not achieve
\* target' error when no probe of the quality-only search fitted.
C3_NoFallbackWithoutAutoScale ==
    (call.pc # "idle" /\ ~call.auto_scale) =>
        /\ call.pc \notin {"scale", "scaled", "endscale"}
        /\ call.scale_factor = ScaleOne
        /\ Fallback = {}
        /\ (ReturnedFromSearch /\ \A n \in QualityOnly : ~call.probes[n].fits)
              => (call.ret = Unreachable /\ ~call.best_result.some)

C3_Witness ==
    /\ call.pc = "done"
    /\ ~call.auto_scale
    /\ call.ret = Unreachable
    /\ Len(call.probes) = 6

\* the quality-10 encoding exceeds target_bytes at scale 1.0 and at every
\* scale of the schedule
Q10Exceeds ==
    \A scale \in {ScaleOne} \cup ScheduleScales :
        \A size \in EncodedSizes(call.img, call.format, scale, QualityLow) :
            size > call.target_bytes

\* C4 as stated: for any encoder, monotone or not, such an image gets the
\* Unreachable error.
C4_AsStated ==
    (ReturnedFromSearch /\ Q10Exceeds) =>
        (call.ret = Unreachable /\ ~call.best_result.some)

\* C4, amended: when the encoded size is non-decreasing in quality, an image
\* whose quality-10 encoding exceeds target_bytes at scale 1.0 and at every
\* scale of the schedule gets the Unreachable error, with auto_scale or without.
C4_UnreachableWhenMonotone ==
    (ReturnedFromSearch /\ Q10Exceeds /\ call.img.kind = "monotone") =>
        (call.ret = Unreachable /\ ~call.best_result.some)

\* every scale was tried on an image that shrinks with its pixels
C4_Witness ==
    /\ call.pc = "done"
    /\ call.auto_scale
    /\ call.img.kind = "monotone"
    /\ call.img.shrink = "area"
    /\ Q10Exceeds
    /\ call.ret = Unreachable
    /\ \A scale \in ScheduleScales : \E n \in Fallback : call.probes[n].scale = scale

\* the 50 KB scenario: the image's smallest-quality encoding is 80 KB, the
\* image was processed and neither the file system nor the encoder failed
Scenario ==
    /\ images # <<>>
    /\ task[1].pc = "pushed"
    /\ config.target_size_kb.some
    /\ config.target_size_kb.kb = 50
    /\ config.auto_scale
    /\ ReturnedFromSearch
    /\ EncodedSizes(call.img, call.format, ScaleOne, QualityLow) = {ScenarioImageBytes}
    /\ results[1].message \notin {"io error", "Failed to read output file"}

\* C5 as stated (for an encoder that is monotone in quality): success, at most
\* 51200 bytes, recorded scale below 1.0.
C5_AsStated ==
    (Scenario /\ call.img.kind = "monotone") =>
        /\ results[1].success
        /\ results[1].final_size <= KB(50)
        /\ call.best_result.some
        /\ call.best_result.scale < ScaleOne

\* C5, amended: in the scenario the batch result is a success of at most
\* 51200 bytes exactly when some probe fitted, with a recorded scale below 1.0
\* unless a quality-only probe fitted; when no probe fitted, at quality
\* 60..95 on any scale of the schedule, it is the failure 'Could not achieve
\* target file size' with final_size 0.
C5_ScenarioOutcome ==
    Scenario =>
        IF \E n \in DOMAIN call.probes : call.probes[n].fits
        THEN /\ results[1].success
             /\ results[1].final_size <= KB(50)
             /\ results[1].final_size = call.best_result.data
             /\ (\A n \in QualityOnly : ~call.probes[n].fits)
                    => (call.best_result.scale < ScaleOne /\ Fallback # {})
             /\ call.img.kind = "monotone" => call.best_result.scale < ScaleOne
        ELSE /\ ~results[1].success
             /\ results[1].message = Unreachable
             /\ results[1].final_size = 0
             /\ Len(call.probes) = 6 + 5 * Cardinality(ScheduleIndex)

C5_Witness ==
    /\ Scenario
    /\ call.img.kind = "monotone"
    /\ results[1].success
    /\ call.best_result.scale < ScaleStart

\* C6: a result of the fallback has scale 0.95 * 0.85^k for some k >= 0, above
\* 0.30 and at most 0.95; no probe is made at a scale of 0.30 or less, and a
\* result of scale 1.0 comes from the quality-only search.
C6_ScaleOnSchedule ==
    call.pc # "idle" =>
        /\ \A n \in Fallback :
             /\ \E k \in DOMAIN Schedule : call.probes[n].scale = Schedule[k]
             /\ call.probes[n].scale > 3000000
             /\ call.probes[n].scale <= 9500000
        /\ call.best_result.some =>
             IF \E n \in QualityOnly : call.probes[n].fits
             THEN call.best_result.scale = ScaleOne /\ Fallback = {}
             ELSE /\ \E k \in DOMAIN Schedule : call.best_result.scale = Schedule[k]
                  /\ call.best_result.scale > 3000000
                  /\ call.best_result.scale <= 9500000
                  /\ call.best_result.scale = call.probes[Len(call.probes)].scale

\* the result comes from the last scale of the schedule, 0.95 * 0.85^7
C6_Witness ==
    /\ ReturnedOk
    /\ call.best_result.scale = Schedule[7]

\* C8: when the encoded size is non-decreasing in quality, the quality-only
\* search ends with the highest quality of 10..95 whose encoding fits, at
\* scale 1.0 and with that encoding as the buffer, and with no result exactly
\* when the quality-10 encoding does not fit.
FittingQualities ==
    {q \in QualityLow..QualityHigh :
        \A size \in EncodedSizes(call.img, call.format, ScaleOne, q) :
            size <= call.target_bytes}

C8_HighestFittingQuality ==
    (call.pc = "quality" /\ ~LoopRuns(call) /\ call.img.kind = "monotone") =>
        /\ call.best_result.some <=> QualityLow \in FittingQualities
        /\ call.best_result.some <=> FittingQualities # {}
        /\ call.best_result.some =>
             /\ call.best_result.quality \in FittingQualities
             /\ \A q \in FittingQualities : q <= call.best_result.quality
             /\ call.best_result.scale = ScaleOne
             /\ call.best_result.data \in
                    EncodedSizes(call.img, call.format, ScaleOne, call.best_result.quality)

\* the size steps over the budget between qualities 94 and 95
C8_Witness ==
    /\ call.pc = "quality" /\ ~LoopRuns(call)
    /\ call.img.kind = "monotone"
    /\ call.img.lo <= call.target_bytes
    /\ call.img.hi > call.target_bytes
    /\ call.img.t = QualityHigh
    /\ call.best_result.some
    /\ call.best_result.quality = QualityHigh - 1

\* C9: the fallback tries the scales in decreasing schedule order, at each
\* scale probes 77 first and then halves downwards within 60..95, and the
\* first probe that fits is the last probe made and is the result.
C9_FirstFitWins ==
    call.pc # "idle" =>
        \A n \in Fallback :
            /\ n > 1 => call.probes[n - 1].scale >= call.probes[n].scale
            /\ IF n - 1 \in Fallback /\ call.probes[n - 1].scale = call.probes[n].scale
               THEN call.probes[n].quality = (60 + call.probes[n - 1].quality - 1) \div 2
               ELSE /\ call.probes[n].quality = 77
                    /\ n - 1 \in Fallback =>
                         /\ call.probes[n].scale < call.probes[n - 1].scale
                         /\ \E k \in ScheduleIndex :
                              /\ call.probes[n - 1].scale = Schedule[k]
                              /\ call.probes[n].scale = Schedule[k + 1]
                    /\ n - 1 \notin Fallback => call.probes[n].scale = Schedule[0]
            /\ call.probes[n].fits =>
                 /\ n = Len(call.probes)
                 /\ call.pc \in {"endscale", "return", "done"}
                 /\ call.best_result =
                        [some |-> TRUE, data |-> call.best_result.data,
                         quality |-> call.probes[n].quality,
                         scale |-> call.probes[n].scale]
                 /\ call.pc = "done" => call.ret = "ok"

\* the third probe at the second scale fitted and was returned
C9_Witness ==
    /\ ReturnedOk
    /\ call.best_result.scale = Schedule[1]
    /\ call.best_result.quality = 63

----------------------------------------------------------------------------
(* Properties of the batch (under SpecBatch) *)

ResultsOf(i) == {n \in DOMAIN results : results[n].input_path = images[i]}

\* C7: at the summary the collector holds exactly one ProcessResult per
\* collected image, sequentially or in parallel and in whatever order the
\* workers pushed; a result of a failed image has success false and
\* final_size 0; and while images remain some step can always be taken.
C7_OneResultPerImage ==
    /\ main_pc = "summary" =>
         /\ Len(results) = Len(images)
         /\ \A i \in DOMAIN images : Cardinality(ResultsOf(i)) = 1
    /\ \A n \in DOMAIN results :
         /\ results[n].success \/ results[n].final_size = 0
         /\ results[n].success <=> results[n].message = ""
    /\ \A i \in DOMAIN images :
         task[i].pc = "pushed" => Cardinality(ResultsOf(i)) = 1
    /\ main_pc = "running" => ENABLED NextBatch

\* two images in parallel: the first failed, the second succeeded and was
\* pushed first
C7_Witness ==
    /\ main_pc = "summary"
    /\ config.parallel
    /\ Len(images) = 2
    /\ results[1].input_path = images[2]
    /\ results[1].success
    /\ ~results[2].success
    /\ results[2].message = Unreachable

\* C10: no output file is written by two images of one batch.
C10_DistinctOutputs ==
    \A p \in DOMAIN files : Cardinality(files[p].writers) <= 1

====
